---- MODULE Spec2Model ----
(***************************************************************************)
(* Model of litterbox/fabric/model.py: the tower registry of Model, the    *)
(* checkpoint variable selection of Model.variables_to_restore and the     *)
(* scope stripping of Model.strip_common_scope.                            *)
(*                                                                         *)
(* Python values are records with a "type" field, so that None, strings,   *)
(* towers and exceptions can be compared with each other.  Python strings  *)
(* that the code inspects character by character (op names, scopes) are    *)
(* sequences of one-character strings.                                     *)
(***************************************************************************)
EXTENDS Integers, Sequences, FiniteSets, TLC

VARIABLES
    self_towers,        \* Model._towers: dict name -> ModelTower
    self_last_tower,    \* Model._last_tower: None or a ModelTower
    self_model_variable_scope,  \* Model.model_variable_scope: None or a string
    created,            \* history: the towers made by add_tower, in call order
    outcome,            \* the latest call on the registry and how it ended
    call,               \* inputs of a variables_to_restore / strip_common_scope call
    result              \* what that call returned (NoResult before it ran)

vars == <<self_towers, self_last_tower, self_model_variable_scope, created, outcome, call, result>>

----------------------------------------------------------------------------
(* Python values *)

None == [type |-> "NoneType"]

Str(s) == [type |-> "str", val |-> s]

\* ModelTower.__init__: the four fields; id stands for the object's identity
ModelTower(id, name, endpoints, outputs, aux_outputs) ==
    [type |-> "ModelTower", id |-> id, name |-> name, endpoints |-> endpoints,
     outputs |-> outputs, aux_outputs |-> aux_outputs]

\* Python truth value: None and '' are false; an instance of a class that
\* defines neither __bool__ nor __len__ (ModelTower) is true
Truthy(v) ==
    CASE v.type = "NoneType" -> FALSE
      [] v.type = "str" -> v.val # ""
      [] OTHER -> TRUE

Return(v) == [kind |-> "return", value |-> v]

Raise(exc, msg) == [kind |-> "raise", value |-> [type |-> exc, msg |-> msg]]

----------------------------------------------------------------------------
(* Bounds and input domains of the registry *)

MaxTowers == 4

\* names handed to add_tower and tower: scope strings, the empty string, None
TowerNames == {Str("tower_0"), Str("tower_1"), Str(""), None}

QueryNames == TowerNames \cup {Str("tower_9")}

Endpoints == {"net_a", "net_b"}

----------------------------------------------------------------------------
(* Model.__init__ *)

ModelInit ==
    /\ self_model_variable_scope = None
    /\ self_last_tower = None
    /\ self_towers = << >>

NoCall == [op |-> "none"]

NoResult == [type |-> "NoResult"]

Init ==
    /\ ModelInit
    /\ created = << >>
    /\ outcome = [op |-> "__init__", arg |-> None, res |-> Return(None)]
    /\ call = NoCall
    /\ result = NoResult

\* dict item assignment d[k] = v
DictSet(d, k, v) == [x \in (DOMAIN d) \cup {k} |-> IF x = k THEN v ELSE d[x]]

\* a registry that keeps the first tower of a name instead of replacing it
add_tower_keep_first(name, endpoints, outputs, aux_outputs) ==
    LET t == ModelTower(Len(created) + 1, name, endpoints, outputs, aux_outputs) IN
    /\ Len(created) < MaxTowers
    /\ self_last_tower' = t
    /\ self_towers' = IF name \in DOMAIN self_towers THEN self_towers
                      ELSE DictSet(self_towers, name, t)
    /\ created' = Append(created, t)
    /\ outcome' = [op |-> "add_tower", arg |-> name, res |-> Return(None)]
    /\ UNCHANGED <<self_model_variable_scope, call, result>>

\* Model.add_tower
add_tower(name, endpoints, outputs, aux_outputs) ==
    LET t == ModelTower(Len(created) + 1, name, endpoints, outputs, aux_outputs) IN
    /\ Len(created) < MaxTowers
    /\ self_last_tower' = t
    /\ self_towers' = DictSet(self_towers, name, t)
    /\ created' = Append(created, t)
    /\ outcome' = [op |-> "add_tower", arg |-> name, res |-> Return(None)]
    /\ UNCHANGED <<self_model_variable_scope, call, result>>

\* last_tower that hands back None instead of raising
last_tower_result_lenient == Return(self_last_tower)

\* Model.last_tower, as the result of the call (it changes no state)
last_tower_result ==
    IF ~Truthy(self_last_tower)
    THEN Raise("RuntimeError", "A valid model tower is required, please build one first")
    ELSE Return(self_last_tower)

\* Model.tower, as the result of the call (it changes no state)
tower_result(name) ==
    IF name = None
    THEN \* self.last_tower(): its exception propagates, and a tower it
         \* returns is an object, which passes the truth test of line 59
         last_tower_result
    ELSE IF name \notin DOMAIN self_towers
    THEN \* self._towers[name] on a missing key
         Raise("KeyError", name)
    ELSE IF ~Truthy(self_towers[name])
    THEN \* 'Invalid tower ' % name has no conversion specifier for name
         Raise("TypeError", "not all arguments converted during string formatting")
    ELSE Return(self_towers[name])

\* Model.last_scope, as the result of the call (it changes no state)
last_scope_result ==
    IF Truthy(self_last_tower) THEN Return(self_last_tower.name) ELSE Return(Str(""))

last_tower ==
    /\ outcome' = [op |-> "last_tower", arg |-> None, res |-> last_tower_result]
    /\ UNCHANGED <<self_towers, self_last_tower, self_model_variable_scope, created, call, result>>

tower(name) ==
    /\ outcome' = [op |-> "tower", arg |-> name, res |-> tower_result(name)]
    /\ UNCHANGED <<self_towers, self_last_tower, self_model_variable_scope, created, call, result>>

last_scope ==
    /\ outcome' = [op |-> "last_scope", arg |-> None, res |-> last_scope_result]
    /\ UNCHANGED <<self_towers, self_last_tower, self_model_variable_scope, created, call, result>>

Next ==
    \/ \E n \in TowerNames, e \in Endpoints : add_tower(n, e, "logits", None)
    \/ last_tower
    \/ \E n \in QueryNames : tower(n)
    \/ last_scope

Spec == Init /\ [][Next]_vars

----------------------------------------------------------------------------
(* The registry's claims *)

AddedNames == {created[i].name : i \in 1..Len(created)}

MostRecent == created[Len(created)]

MostRecentNamed(n) ==
    LET last == CHOOSE i \in 1..Len(created) :
                    /\ created[i].name = n
                    /\ \A j \in (i + 1)..Len(created) : created[j].name # n
    IN created[last]

LastTowerAnswers ==
    /\ outcome.op = "last_tower" => outcome.res = Return(MostRecent)
    /\ (outcome.op = "tower" /\ outcome.arg = None) => outcome.res = Return(MostRecent)
    /\ outcome.op = "last_scope" => outcome.res = Return(MostRecent.name)

\* C1 as stated: once add_tower has been called, last_tower() and tower(None)
\* return the tower of the most recent add_tower call, last_scope() returns
\* that tower's name, and tower(n) returns the tower of the most recent
\* add_tower call named n, for every n ever passed to add_tower.
C1_AsStated ==
    Len(created) >= 1 =>
        /\ LastTowerAnswers
        /\ (outcome.op = "tower" /\ outcome.arg \in AddedNames)
               => outcome.res = Return(MostRecentNamed(outcome.arg))

\* C1 amended: the same, with tower(n) returning the most recent tower named
\* n for every n other than None that was passed to add_tower; tower(None)
\* is always the most recent tower of any name.
C1_LatestTowerWins ==
    Len(created) >= 1 =>
        /\ LastTowerAnswers
        /\ (outcome.op = "tower" /\ outcome.arg \in AddedNames \ {None})
               => outcome.res = Return(MostRecentNamed(outcome.arg))

\* a name was added twice, another name after it, and tower(name) was called
C1_Witness ==
    /\ outcome.op = "tower"
    /\ outcome.arg # None
    /\ \E i, j, k \in 1..Len(created) :
          /\ i < j /\ j < k
          /\ created[i].name = outcome.arg
          /\ created[j].name = outcome.arg
          /\ created[k].name # outcome.arg
    /\ outcome.res.kind = "return"

\* C5: on a Model that never saw add_tower, last_tower() and tower(None)
\* raise RuntimeError with the 'valid model tower is required' message,
\* last_scope() returns '', and the registry and the last-tower reference
\* are still as __init__ left them.
C5_EmptyRegistry ==
    Len(created) = 0 =>
        /\ outcome.op = "last_tower" =>
               outcome.res = Raise("RuntimeError",
                   "A valid model tower is required, please build one first")
        /\ (outcome.op = "tower" /\ outcome.arg = None) =>
               outcome.res = Raise("RuntimeError",
                   "A valid model tower is required, please build one first")
        /\ outcome.op = "last_scope" => outcome.res = Return(Str(""))
        /\ self_towers = << >>
        /\ self_last_tower = None

C5_Witness ==
    /\ Len(created) = 0
    /\ outcome.op = "tower"
    /\ outcome.arg = None
    /\ outcome.res.kind = "raise"

\* C6 as stated: tower(name) with a name under which no tower was added
\* raises RuntimeError with an 'Invalid tower' message.
C6_AsStated ==
    (outcome.op = "tower" /\ outcome.arg # None /\ outcome.arg \notin DOMAIN self_towers)
        => /\ outcome.res.kind = "raise"
           /\ outcome.res.value.type = "RuntimeError"

----------------------------------------------------------------------------
(* Strings as sequences of characters *)

Chars(s) ==
    CASE s = "" -> << >>
      [] s = "tower" -> <<"t", "o", "w", "e", "r">>
      [] s = "tower_" -> <<"t", "o", "w", "e", "r", "_">>
      [] s = "a/w" -> <<"a", "/", "w">>
      [] s = "a/o" -> <<"a", "/", "o">>
      [] s = "o/w" -> <<"o", "/", "w">>
      [] s = "a/" -> <<"a", "/">>
      [] s = "x/" -> <<"x", "/">>
      [] OTHER -> <<s>>

DigitChars == <<"0", "1", "2", "3", "4", "5", "6", "7", "8", "9">>

IsDigit(c) == \E d \in 1..Len(DigitChars) : DigitChars[d] = c

\* str.startswith, and the same test at position i of s
StartsWithAt(s, i, p) ==
    /\ i + Len(p) - 1 <= Len(s)
    /\ SubSeq(s, i, i + Len(p) - 1) = p

startswith(s, p) == StartsWithAt(s, 1, p)

\* '%d' % n for n >= 0
RECURSIVE FormatDecimal(_)
FormatDecimal(n) ==
    IF n < 10 THEN <<DigitChars[n + 1]>>
    ELSE FormatDecimal(n \div 10) \o <<DigitChars[(n % 10) + 1]>>

----------------------------------------------------------------------------
(* Model.scope_name and Model.strip_common_scope *)

TOWER_PREFIX == Chars("tower")

\* Model.scope_name: '%s_%d' % (TOWER_PREFIX, tower_id)
scope_name(tower_id) == TOWER_PREFIX \o <<"_">> \o FormatDecimal(tower_id)

\* the end of the run of digits that starts at position j of s
RECURSIVE DigitsEnd(_, _)
DigitsEnd(s, j) ==
    IF j <= Len(s) /\ IsDigit(s[j]) THEN DigitsEnd(s, j + 1) ELSE j

\* a tower pattern that asks for at least one digit: 'tower_[0-9]+/'
TowerMatchEndOneDigit(s, i) ==
    LET p == TOWER_PREFIX \o <<"_">>
        j == DigitsEnd(s, i + Len(p))
    IN  IF StartsWithAt(s, i, p) /\ j > i + Len(p) /\ j <= Len(s) /\ s[j] = "/"
        THEN j + 1 ELSE 0

\* A match of the pattern '%s_[0-9]*/' % TOWER_PREFIX at position i of s: the
\* position after the match, or 0 when there is none.  [0-9]* is greedy and
\* the '/' that follows is no digit, so backtracking finds nothing more.
TowerMatchEnd(s, i) ==
    LET p == TOWER_PREFIX \o <<"_">>
        j == DigitsEnd(s, i + Len(p))
    IN  IF StartsWithAt(s, i, p) /\ j <= Len(s) /\ s[j] = "/"
        THEN j + 1 ELSE 0

\* re.sub(tower pattern, '', s) from position i on: the leftmost match is
\* dropped and the scan goes on after it; other characters are copied
RECURSIVE SubTower(_, _)
SubTower(s, i) ==
    IF i > Len(s) THEN << >>
    ELSE IF TowerMatchEnd(s, i) > 0 THEN SubTower(s, TowerMatchEnd(s, i))
    ELSE <<s[i]>> \o SubTower(s, i + 1)

\* re.sub('%s/' % scope, '', s) from position i on, for a scope free of
\* regular-expression metacharacters
RECURSIVE SubScope(_, _, _)
SubScope(scope, s, i) ==
    IF i > Len(s) THEN << >>
    ELSE IF StartsWithAt(s, i, scope \o <<"/">>)
         THEN SubScope(scope, s, i + Len(scope) + 1)
    ELSE <<s[i]>> \o SubScope(scope, s, i + 1)

\* Model.strip_common_scope
strip_common_scope(input_name) ==
    LET output_name == SubTower(input_name, 1) IN
    IF Truthy(self_model_variable_scope)
    THEN SubScope(self_model_variable_scope.val, output_name, 1)
    ELSE output_name

(* Inputs: op names built from a few pieces, tower ids with one and two digits *)

MaxPieces == 5

MaxTowerId == 11

NamePieces == {Chars("tower_"), <<"7">>, <<"/">>, <<"m">>}

RECURSIVE NamesUpTo(_)
NamesUpTo(k) ==
    IF k = 0 THEN {<< >>}
    ELSE LET shorter == NamesUpTo(k - 1)
         IN  shorter \cup {n \o p : n \in shorter, p \in NamePieces}

OpNames == NamesUpTo(MaxPieces)

ModelVariableScopes == {None, [type |-> "str", val |-> <<"m">>],
                        [type |-> "str", val |-> <<"m", "/", "7">>]}

InitStrip ==
    /\ self_model_variable_scope \in ModelVariableScopes
    /\ self_last_tower = None
    /\ self_towers = << >>
    /\ created = << >>
    /\ outcome = [op |-> "__init__", arg |-> None, res |-> Return(None)]
    /\ call \in [op : {"strip_common_scope"}, tower_id : 0..MaxTowerId, name : OpNames]
    /\ result = NoResult

\* the same op name stripped twice: inside the scope of tower tower_id, as
\* activation_summaries sees it, and bare
StripCall ==
    /\ call.op = "strip_common_scope"
    /\ result = NoResult
    /\ result' = [type |-> "stripped",
                  in_tower |-> strip_common_scope(scope_name(call.tower_id) \o <<"/">> \o call.name),
                  bare |-> strip_common_scope(call.name)]
    /\ UNCHANGED <<self_towers, self_last_tower, self_model_variable_scope,
                   created, outcome, call>>

NextStrip == StripCall

SpecStrip == InitStrip /\ [][NextStrip]_vars

\* some position of s starts 'tower_', one or more digits, '/'
HasTowerDigits(s) == \E i \in 1..Len(s) : TowerMatchEndOneDigit(s, i) > 0

\* some position of s starts 'tower_', zero or more digits, '/'
HasTowerPattern(s) == \E i \in 1..Len(s) : TowerMatchEnd(s, i) > 0

\* C4 as stated: an op name stripped inside a tower scope equals the op name
\* stripped bare, and when the name holds no 'tower_<digits>/' and no model
\* variable scope is set, stripping leaves the name as it is.
C4_AsStated ==
    result.type = "stripped" =>
        /\ result.in_tower = result.bare
        /\ (~HasTowerDigits(call.name) /\ self_model_variable_scope = None)
               => result.bare = call.name

\* The part of C4 that the code keeps: the tower scope never shows in the
\* stripped name, and a name in which the pattern with zero or more digits
\* matches nowhere is left as it is when no model variable scope is set.
StripTowerInvariant ==
    result.type = "stripped" =>
        /\ result.in_tower = result.bare
        /\ (~HasTowerPattern(call.name) /\ self_model_variable_scope = None)
               => result.bare = call.name

----------------------------------------------------------------------------
(* Model.variables_to_restore *)

\* a model variable; var.op.name is its name
Variable(name) == [type |-> "Variable", name |-> name]

PyList(items) == [type |-> "list", items |-> items]

\* a dict is the function from its keys to their values
PyDict(items) == [type |-> "dict", items |-> items]

\* tf.contrib.framework.variables.get_model_variables(scope): the collection
\* of model variables, in order, cut down to the names that scope matches at
\* their start; scope None keeps them all
get_model_variables(collection, scope) ==
    IF scope = None THEN collection
    ELSE SelectSeq(collection, LAMBDA v : startswith(v.name, scope.val))

\* the abstract Model.output_scopes: what the subclass of the call returns
output_scopes(prefix_scope) == call.output_scopes

\* an exclusion test that asks for the whole name instead of its start
IsExcludedExact(var, exclude_variables) ==
    \E e \in 1..Len(exclude_variables) : var.name = exclude_variables[e]

\* the inner loop of the filter: some exclusion is a prefix of the op name
IsExcluded(var, exclude_variables) ==
    \E e \in 1..Len(exclude_variables) : startswith(var.name, exclude_variables[e])

\* the base class hook Model._remap_variable_names
remap_variable_names(variables, checkpoint_variable_set, prefix_scope) ==
    PyList(variables)

\* the last variable of a list that carries a name (a later dict store to
\* the same key overwrites the earlier one)
LastNamed(variables, name) ==
    variables[CHOOSE i \in 1..Len(variables) :
                  /\ variables[i].name = name
                  /\ \A j \in (i + 1)..Len(variables) : variables[j].name # name]

NamesOf(variables) == {variables[i].name : i \in 1..Len(variables)}

\* the hook as the class of the call defines it: the base class, or a
\* subclass that returns a dict keyed by op name, a dict keyed by the op name
\* under an added 'x/' scope, or a shorter list
RemapHook(variables, checkpoint_variable_set, prefix_scope) ==
    CASE call.remap = "base" ->
            remap_variable_names(variables, checkpoint_variable_set, prefix_scope)
      [] call.remap = "dict_by_name" ->
            PyDict([n \in NamesOf(variables) |-> LastNamed(variables, n)])
      [] call.remap = "dict_rescoped" ->
            PyDict([k \in {Chars("x/") \o n : n \in NamesOf(variables)} |->
                        LastNamed(variables, SubSeq(k, 3, Len(k)))])
      [] call.remap = "list_tail" ->
            PyList(SubSeq(variables, 2, Len(variables)))

\* the names the checkpoint matching goes through: the dict's keys, or the
\* op names of the list, in both cases as a set
CandidateNames(remapped) ==
    IF remapped.type = "dict" THEN DOMAIN remapped.items ELSE NamesOf(remapped.items)

\* a matching that treats an empty checkpoint set like any other set
MatchCheckpointAlways(remapped, checkpoint_variable_set) ==
    LET keys == CandidateNames(remapped) \cap checkpoint_variable_set
    IN  [value |-> PyDict([k \in keys |->
                      IF remapped.type = "dict" THEN remapped.items[k]
                      ELSE LastNamed(remapped.items, k)]),
         matched |-> keys,
         missing |-> CandidateNames(remapped) \ checkpoint_variable_set]

\* a matching that keeps every candidate, found in the checkpoint or not
MatchCheckpointKeepAll(remapped, checkpoint_variable_set) ==
    IF checkpoint_variable_set = {}
    THEN [value |-> remapped, matched |-> {}, missing |-> {}]
    ELSE [value |-> PyDict([k \in CandidateNames(remapped) |->
                      IF remapped.type = "dict" THEN remapped.items[k]
                      ELSE LastNamed(remapped.items, k)]),
          matched |-> CandidateNames(remapped) \cap checkpoint_variable_set,
          missing |-> CandidateNames(remapped) \ checkpoint_variable_set]

\* lines 113-134: with a non-empty checkpoint set every candidate name goes
\* to matched (a dict) or to missing (a list, kept here as the set of its
\* names), and matched is returned; with an empty one nothing is matched
MatchCheckpoint(remapped, checkpoint_variable_set) ==
    IF checkpoint_variable_set = {}
    THEN [value |-> remapped, matched |-> {}, missing |-> {}]
    ELSE LET keys == CandidateNames(remapped) \cap checkpoint_variable_set
         IN  [value |-> PyDict([k \in keys |->
                          IF remapped.type = "dict" THEN remapped.items[k]
                          ELSE LastNamed(remapped.items, k)]),
              matched |-> keys,
              missing |-> CandidateNames(remapped) \ checkpoint_variable_set]

\* lines 92-108: the filter on output scopes
FilterOutputs(restore_variables, exclude_variables, restore_outputs) ==
    IF ~restore_outputs
    THEN SelectSeq(restore_variables, LAMBDA v : ~IsExcluded(v, exclude_variables))
    ELSE restore_variables

\* Model.variables_to_restore: what it returns (value), with the matched and
\* missing names of the checkpoint matching and the hook's result (remapped)
variables_to_restore(restore_outputs, checkpoint_variable_set, prefix_scope) ==
    LET scope == IF Len(prefix_scope) > 0 THEN Str(prefix_scope) ELSE None
        restore_variables == get_model_variables(call.model_variables, scope)
        exclude_variables == output_scopes(prefix_scope)
        filtered == FilterOutputs(restore_variables, exclude_variables, restore_outputs)
        remapped == RemapHook(filtered, checkpoint_variable_set, prefix_scope)
        m == MatchCheckpoint(remapped, checkpoint_variable_set)
    IN  [type |-> "restore", value |-> m.value, matched |-> m.matched,
         missing |-> m.missing, remapped |-> remapped]

(* Inputs *)

MaxVars == 3

VariableNames == {Chars("a/w"), Chars("a/o"), Chars("o/w"), Chars("o")}

RECURSIVE ListsUpTo(_)
ListsUpTo(k) ==
    IF k = 0 THEN {<< >>}
    ELSE LET shorter == ListsUpTo(k - 1)
         IN  shorter \cup {Append(l, Variable(n)) :
                             l \in shorter, n \in VariableNames}

\* a collection holds a variable once
Collections ==
    {l \in ListsUpTo(MaxVars) : \A i, j \in 1..Len(l) : l[i] = l[j] => i = j}

OutputScopeLists == {<< >>, <<Chars("o")>>, <<Chars("a/")>>,
                     <<Chars("a/o"), Chars("o")>>, <<Chars("")>>}

PrefixScopes == {Chars(""), Chars("a"), Chars("o")}

CheckpointSets == SUBSET {Chars("a/w"), Chars("o/w"), Chars("x/") \o Chars("a/o"),
                          Chars("z")}

RemapKinds == {"base", "dict_by_name", "dict_rescoped", "list_tail"}

InitRestore ==
    /\ ModelInit
    /\ created = << >>
    /\ outcome = [op |-> "__init__", arg |-> None, res |-> Return(None)]
    /\ call \in [op : {"variables_to_restore"}, model_variables : Collections,
                 output_scopes : OutputScopeLists, remap : RemapKinds,
                 restore_outputs : BOOLEAN, checkpoint_variable_set : CheckpointSets,
                 prefix_scope : PrefixScopes]
    /\ result = NoResult

RestoreCall ==
    /\ call.op = "variables_to_restore"
    /\ result = NoResult
    /\ result' = variables_to_restore(call.restore_outputs,
                                      call.checkpoint_variable_set, call.prefix_scope)
    /\ UNCHANGED <<self_towers, self_last_tower, self_model_variable_scope,
                   created, outcome, call>>

NextRestore == RestoreCall

SpecRestore == InitRestore /\ [][NextRestore]_vars

----------------------------------------------------------------------------
(* The claims on variables_to_restore *)

\* p is a prefix of s
IsPrefix(p, s) == \E k \in 0..Len(s) : SubSeq(s, 1, k) = p

\* the positions of the collection whose variable lies in the prefix scope
InScope(c) ==
    {i \in 1..Len(c.model_variables) :
        IsPrefix(c.prefix_scope, c.model_variables[i].name)}

\* the positions a restore without outputs has to keep
Kept(c) ==
    {i \in InScope(c) :
        \A e \in 1..Len(c.output_scopes) :
            ~IsPrefix(c.output_scopes[e], c.model_variables[i].name)}

\* l lists the variables at the positions P of the collection, in their order
ListsPositions(l, c, P) ==
    /\ Len(l) = Cardinality(P)
    /\ \E f \in [1..Len(l) -> P] :
          /\ \A a, b \in 1..Len(l) : a < b => f[a] < f[b]
          /\ \A a \in 1..Len(l) : l[a] = c.model_variables[f[a]]

\* C2: with an empty checkpoint set and the base class hook, a restore
\* without outputs returns the variables of the prefix scope whose op name
\* starts with none of the output scopes, in their original order, and a
\* restore with outputs returns every variable of the prefix scope.
C2_OutputFilter ==
    (result.type = "restore" /\ call.checkpoint_variable_set = {} /\ call.remap = "base")
        => /\ result.value.type = "list"
           /\ ~call.restore_outputs => ListsPositions(result.value.items, call, Kept(call))
           /\ call.restore_outputs => ListsPositions(result.value.items, call, InScope(call))

\* a restore without outputs that dropped a variable lying below an output
\* scope, not named like it, and kept another
C2_Witness ==
    /\ result.type = "restore"
    /\ call.checkpoint_variable_set = {}
    /\ call.remap = "base"
    /\ ~call.restore_outputs
    /\ Len(result.value.items) >= 1
    /\ \E i \in InScope(call) \ Kept(call) :
          \A e \in 1..Len(call.output_scopes) :
              call.output_scopes[e] # call.model_variables[i].name

\* the candidate names of a hook result, read off the returned value
Candidates(r) ==
    IF r.type = "dict" THEN DOMAIN r.items
    ELSE {r.items[i].name : i \in 1..Len(r.items)}

\* C3: with a non-empty checkpoint set the call returns a dict whose keys are
\* the candidate names that the checkpoint set holds (the hook's dict keys,
\* or the op names of the hook's list); every candidate name is in exactly
\* one of matched and missing, and no key lies outside the checkpoint set.
C3_CheckpointMatch ==
    (result.type = "restore" /\ call.checkpoint_variable_set # {})
        => /\ result.value.type = "dict"
           /\ DOMAIN result.value.items
                  = Candidates(result.remapped) \cap call.checkpoint_variable_set
           /\ result.matched = DOMAIN result.value.items
           /\ result.matched \cup result.missing = Candidates(result.remapped)
           /\ result.matched \cap result.missing = {}
           /\ DOMAIN result.value.items \subseteq call.checkpoint_variable_set

\* a hook dict with renamed keys, one of them in the checkpoint, one not
C3_Witness ==
    /\ result.type = "restore"
    /\ call.checkpoint_variable_set # {}
    /\ call.remap = "dict_rescoped"
    /\ result.matched # {}
    /\ result.missing # {}

\* C7: an empty checkpoint set switches the matching off and the hook's
\* result is returned as it is; a non-empty checkpoint set that holds none
\* of the candidate names gives an empty dict.
C7_EmptyCheckpointSet ==
    result.type = "restore" =>
        /\ call.checkpoint_variable_set = {} =>
               /\ result.value = result.remapped
               /\ result.matched = {} /\ result.missing = {}
        /\ (/\ call.checkpoint_variable_set # {}
            /\ call.checkpoint_variable_set \cap Candidates(result.remapped) = {})
               => result.value = PyDict(<< >>)

\* an empty checkpoint set and a hook result of two variables, returned whole
C7_Witness ==
    /\ result.type = "restore"
    /\ call.checkpoint_variable_set = {}
    /\ Cardinality(Candidates(result.remapped)) >= 2
    /\ result.value = result.remapped

====
